---- MODULE Spec2Model ----
\* Label grounding and reconciliation: the LabelMap cache (src/classes.py),
\* the batch run check_groundings (src/MainMarineUpdated.py) that gates the
\* evaluation oracle on it and persists it, the resolver
\* ground_labels_with_api_call and the operator's manual_correction.
EXTENDS Integers, Sequences, FiniteSets, TLC

\* ---------------------------------------------------------------- bounds

\* Longest batch of samples handed to check_groundings.
MaxSamples == 2
\* Longest list field of a sample of the LabelMap interface specification, and
\* longest 'treatment' list the oracle answers with.
MaxTreat == 2

\* ---------------------------------------------------------------- values

\* Python's None (the uniq_id of the unresolved sentinel).
None == "None"
\* Raw label texts.
Labels == {"leaf", "heat", "salt"}
\* Term ids the lookup service hands out.
TermIds == {"PO:1", "CHEBI:2"}
Ids == TermIds \cup {None}

\* A Python dict from label to id: a function on a finite set of labels.
EmptyMap == [l \in {} |-> None]
Put(m, k, v) == [x \in (DOMAIN m) \cup {k} |-> IF x = k THEN v ELSE m[x]]
Maps == UNION {[D -> Ids] : D \in SUBSET Labels}

\* A sample (an insertion-ordered dict): a sequence of entries, each a field
\* name with a scalar label (list = FALSE) or a list of labels (list = TRUE).
Scalar(k, v) == [key |-> k, list |-> FALSE, val |-> v]
ListField(k, v) == [key |-> k, list |-> TRUE, val |-> v]
Keys(d) == {d[n].key : n \in 1..Len(d)}
Get(d, k) == d[CHOOSE n \in 1..Len(d) : d[n].key = k]

\* A term record of a grounding. description and synonyms are carried along
\* by the code and read by nothing modelled here.
TermLabel(id) == IF id = "PO:1" THEN "leaf"
                 ELSE IF id = "CHEBI:2" THEN "sodium chloride" ELSE None
TermRef(id) == [uniq_id |-> id, label |-> TermLabel(id)]
Sentinel == TermRef(None)

\* ------------------------------------------------------------- LabelMap

\* The three maps of a LabelMap instance.
EmptyLabelMap == [map_good |-> EmptyMap, map_bad |-> EmptyMap, map |-> EmptyMap]

add(self, label, id) == [self EXCEPT !.map = Put(@, label, id)]

\* add_good that files the label in the legacy map.
add_good_legacy(self, label, id) == add(self, label, id)

add_good(self, label, id) == [self EXCEPT !.map_good = Put(@, label, id)]

\* add_bad that starts map_bad anew with the one label.
add_bad_replace(self, label, id) == [self EXCEPT !.map_bad = Put(EmptyMap, label, id)]

add_bad(self, label, id) == [self EXCEPT !.map_bad = Put(@, label, id)]

\* A settledness test that also accepts the legacy map.
in_maps_evaluated_legacy(self, el) ==
    el \in DOMAIN self.map_good \/ el \in DOMAIN self.map_bad
        \/ el \in DOMAIN self.map

in_maps_evaluated(self, el) ==
    el \in DOMAIN self.map_good \/ el \in DOMAIN self.map_bad

in_maps(self, el) == in_maps_evaluated(self, el) \/ el \in DOMAIN self.map

\* check_past: the loops of the code, carrying the flag `run`.
RECURSIVE check_terms(_, _, _, _)
check_terms(self, terms, n, run) ==
    IF n > Len(terms) THEN run
    ELSE check_terms(self, terms, n + 1,
                     IF ~in_maps_evaluated(self, terms[n]) THEN TRUE ELSE run)

RECURSIVE check_fields(_, _, _, _)
check_fields(self, sample, n, run) ==
    IF n > Len(sample) THEN run
    ELSE LET e == sample[n] IN
         check_fields(self, sample, n + 1,
             IF e.list THEN check_terms(self, e.val, 1, run)
             ELSE IF e.key # "id"
                  THEN (IF ~in_maps_evaluated(self, e.val) THEN TRUE ELSE run)
                  ELSE run)

check_past(self, sample) == check_fields(self, sample, 1, FALSE)

\* add_mapping: the result is the instance as the call leaves it and whether
\* the call returned (ok) or raised (KeyError, IndexError) part-way.
RECURSIVE add_terms(_, _, _, _, _)
add_terms(self, e, grounded, mask, n) ==
    IF n > Len(e.val) THEN [self |-> self, ok |-> TRUE]
    ELSE IF e.key \notin DOMAIN mask \/ n > Len(mask[e.key])
              \/ e.key \notin Keys(grounded) \/ n > Len(Get(grounded, e.key).val)
         THEN [self |-> self, ok |-> FALSE]
         ELSE LET id == Get(grounded, e.key).val[n].uniq_id IN
              add_terms(IF mask[e.key][n] THEN add_good(self, e.val[n], id)
                                          ELSE add_bad(self, e.val[n], id),
                        e, grounded, mask, n + 1)

RECURSIVE add_fields(_, _, _, _, _)
add_fields(self, og, grounded, mask, n) ==
    IF n > Len(og) THEN [self |-> self, ok |-> TRUE]
    ELSE LET e == og[n] IN
         IF e.list
         THEN LET r == add_terms(self, e, grounded, mask, 1) IN
              IF r.ok THEN add_fields(r.self, og, grounded, mask, n + 1) ELSE r
         ELSE IF ~(e.key = "id" \/ e.key = "medium")
         THEN IF e.key \notin DOMAIN mask \/ e.key \notin Keys(grounded)
              THEN [self |-> self, ok |-> FALSE]
              ELSE LET id == Get(grounded, e.key).val.uniq_id IN
                   add_fields(IF mask[e.key] THEN add_good(self, e.val, id)
                                             ELSE add_bad(self, e.val, id),
                              og, grounded, mask, n + 1)
         ELSE add_fields(self, og, grounded, mask, n + 1)

add_mapping(self, og, grounded, mask) == add_fields(self, og, grounded, mask, 1)

\* -------------------------------------------------------------- storage

\* A JSON text, by what json.dump writes and json.load reads: a string
\* token, null, and an object as its set of members (one per key).
JStr(s) == <<"str", s>>
JNull == <<"null">>
json_dump_id(id) == IF id = None THEN JNull ELSE JStr(id)
\* A loader that reads every token as text.
json_load_id_text(j) == j[Len(j)]
json_load_id(j) == IF j = JNull THEN None ELSE j[2]
json_dump(m) == {<<JStr(k), json_dump_id(m[k])>> : k \in DOMAIN m}
json_load(members) ==
    [k \in {mem[1][2] : mem \in members} |->
        json_load_id((CHOOSE mem \in members : mem[1][2] = k)[2])]

\* A file of the saves directory: absent, unparseable (empty or cut short),
\* or holding a JSON object.
Absent == [kind |-> "absent"]
Corrupt == [kind |-> "corrupt"]
Object(m) == [kind |-> "object", members |-> json_dump(m)]
Files == {"map_good", "map_bad", "map"}
FileOrder == <<"map_good", "map_bad", "map">>

\* The directory: whether it exists, and its three files.
NoDir == [dir |-> FALSE, map_good |-> Absent, map_bad |-> Absent, map |-> Absent]
Dir(g, b, m) == [dir |-> TRUE, map_good |-> g, map_bad |-> b, map |-> m]

\* load_json raises when the file is missing or does not parse.
load_json_ok(doc) == doc.kind = "object"
load_json(doc) == json_load(doc.members)

\* A constructor that falls back file by file.
LabelMap_per_file(d) ==
    [f \in Files |-> IF load_json_ok(d[f]) THEN load_json(d[f]) ELSE EmptyMap]

\* LabelMap.__init__ with a path: the three loads in one try, any failure
\* leaving three empty maps.
LabelMap(d) ==
    IF load_json_ok(d.map_good) /\ load_json_ok(d.map_bad) /\ load_json_ok(d.map)
    THEN [map_good |-> load_json(d.map_good),
          map_bad |-> load_json(d.map_bad),
          map |-> load_json(d.map)]
    ELSE EmptyLabelMap

\* save_map, file by file: open(..., 'w') fails without the directory and
\* else leaves the file empty; json.dump and the close of the with-block
\* leave it holding the map.
open_w_ok(d) == d.dir
open_w(d, f) == [d EXCEPT ![f] = Corrupt]
dump_close(d, f, self) == [d EXCEPT ![f] = Object(self[f])]

\* save_map run to its end without interruption.
save_map_ok(d) == open_w_ok(d)
save_map(d, self) ==
    dump_close(dump_close(dump_close(d, "map_good", self), "map_bad", self),
               "map", self)

\* ---------------------------------------------------------- the batch

\* labels.json entries the script is run on, each with the grounding the
\* resolver produced for it (grounded.json).
ItemA == [og |-> <<Scalar("id", "a"), Scalar("tissue", "leaf"),
                   ListField("treatment", <<"heat", "salt">>)>>,
          grounded |-> <<Scalar("id", "a"), Scalar("tissue", TermRef("PO:1")),
                   ListField("treatment", <<Sentinel, TermRef("CHEBI:2")>>)>>]
ItemB == [og |-> <<Scalar("id", "b"), Scalar("tissue", "leaf"),
                   ListField("treatment", <<>>), Scalar("medium", "agar")>>,
          grounded |-> <<Scalar("id", "b"), Scalar("tissue", TermRef("PO:1")),
                   ListField("treatment", <<>>)>>]
ItemC == [og |-> <<Scalar("id", "c"), ListField("treatment", <<"salt", "heat">>),
                   Scalar("tissue", "salt")>>,
          grounded |-> <<Scalar("id", "c"),
                   ListField("treatment", <<Sentinel, Sentinel>>),
                   Scalar("tissue", TermRef("CHEBI:2"))>>]
Items == {ItemA, ItemB, ItemC}

\* A batch load that leaves 'medium' in.
keep_medium(sample) == sample

\* del sample['medium'] for every sample of the batch.
strip_medium(sample) == SelectSeq(sample, LAMBDA e : e.key # "medium")

Batches == UNION {[1..n -> Items] : n \in 0..MaxSamples}

\* What the 'saves' directory may hold when the script is first started.
DiskStates ==
    { NoDir,
      Dir(Absent, Absent, Absent),
      Dir(Object("leaf" :> "PO:1"), Object("heat" :> None), Object("salt" :> "CHEBI:2")),
      Dir(Object("leaf" :> "PO:1"), Corrupt, Object(EmptyMap)),
      Dir(Object("leaf" :> "PO:1" @@ "heat" :> None), Object("heat" :> "PO:1"),
          Object("leaf" :> "PO:1")) }

\* The verdicts llm_compare_labels may return: a boolean for 'tissue' and a
\* list of booleans, of whatever length, for 'treatment'.
BoolLists == UNION {[1..n -> BOOLEAN] : n \in 0..MaxTreat}
Masks == [tissue : BOOLEAN, treatment : BoolLists]
\* The verdicts add_mapping may be handed: those, and ones lacking a field.
Verdicts == Masks \cup [tissue : BOOLEAN] \cup [treatment : BoolLists]

\* ------------------------------------------------------------- state

VARIABLES
    disk,                \* the 'saves' directory
    sample_data,         \* the batch, 'medium' removed
    grounded_data,       \* its groundings, position by position
    seen_maps,           \* check_groundings' LabelMap, NoInstance outside a run
    pc,                  \* where the process is
    i,                   \* index of the sample the loop is at
    grounded_data_list,  \* check_groundings' result so far
    oracle_calls,        \* samples llm_compare_labels was invoked for, this run
    record_calls,        \* samples add_mapping was invoked for, this run
    fidx,                \* files save_map has written and closed
    err,                 \* what raised, when the process crashed
    prev_done,           \* the run before this one returned from check_groundings
    started_with,        \* the directory as this run found it
    persisting,          \* the documents save_map set out to write, once it has begun
    call,                \* last call of the LabelMap interface specification
    service,             \* what the lookup services answer, label by label
    frame,               \* the locals of ground_labels_with_api_call
    session,             \* the locals of manual_correction
    emitted              \* the two documents manual_correction writes

\* The state of the resolver and of the correction session.
workflow_vars == <<service, frame, session, emitted>>

vars == <<disk, sample_data, grounded_data, seen_maps, pc, i, grounded_data_list,
          oracle_calls, record_calls, fidx, err, prev_done, started_with,
          persisting, call, workflow_vars>>

NoService == [search |-> <<>>, describe |-> <<>>]
NoFrame == [active |-> FALSE]
NoSession == [active |-> FALSE]
NothingEmitted == [manual_corrections |-> Absent, corrected_grounded_data |-> Absent]
Idle == /\ service = NoService
        /\ frame = NoFrame
        /\ session = NoSession
        /\ emitted = NothingEmitted

NoInstance == [map_good |-> EmptyMap, map_bad |-> EmptyMap, map |-> EmptyMap,
               none |-> TRUE]
NoCall == [op |-> "none"]
NotPersisting == [dir |-> FALSE]

Running == pc \in {"loop", "save"}

Init ==
    /\ disk \in DiskStates
    /\ \E b \in Batches :
          /\ sample_data = [n \in DOMAIN b |-> strip_medium(b[n].og)]
          /\ grounded_data = [n \in DOMAIN b |-> b[n].grounded]
    /\ seen_maps = NoInstance
    /\ pc = "start"
    /\ i = 1
    /\ grounded_data_list = <<>>
    /\ oracle_calls = {}
    /\ record_calls = {}
    /\ fidx = 0
    /\ err = "none"
    /\ prev_done = FALSE
    /\ started_with = disk
    /\ persisting = NotPersisting
    /\ call = NoCall
    /\ Idle

\* Where the loop of check_groundings goes once sample n - 1 is dealt with.
loop_or_save(n) == IF n > Len(sample_data) THEN "save" ELSE "loop"

\* check_groundings, to the head of its loop: the LabelMap is constructed.
check_groundings_start ==
    /\ pc = "start"
    /\ seen_maps' = LabelMap(disk)
    /\ started_with' = disk
    /\ pc' = loop_or_save(1)
    /\ i' = 1
    /\ UNCHANGED <<disk, sample_data, grounded_data, grounded_data_list,
                   oracle_calls, record_calls, fidx, err, prev_done,
                   persisting, call, workflow_vars>>

\* A gate that takes the legacy map for settled.
RECURSIVE unseen_in_any_map(_, _, _)
unseen_in_any_map(self, og, n) ==
    IF n > Len(og) THEN FALSE
    ELSE \/ og[n].list /\ \E k \in 1..Len(og[n].val) : ~in_maps(self, og[n].val[k])
         \/ ~og[n].list /\ og[n].key # "id" /\ ~in_maps(self, og[n].val)
         \/ unseen_in_any_map(self, og, n + 1)
needs_oracle_legacy(self, og) == unseen_in_any_map(self, og, 1)

\* The gate of the loop.
needs_oracle(self, og) == check_past(self, og)

\* One iteration on a sample the gate lets through: kept as it is.
keep_original ==
    /\ pc = "loop"
    /\ ~needs_oracle(seen_maps, sample_data[i])
    /\ grounded_data_list' = Append(grounded_data_list, grounded_data[i])
    /\ i' = i + 1
    /\ pc' = loop_or_save(i + 1)
    /\ UNCHANGED <<disk, sample_data, grounded_data, seen_maps, oracle_calls,
                   record_calls, fidx, err, prev_done, started_with,
                   persisting, call, workflow_vars>>

\* deepcopy(grounded) with the mask added.
with_mask(grounded, mask) == Append(grounded, [key |-> "mask", list |-> FALSE, val |-> mask])

\* An iteration that writes the maps out as soon as a verdict is recorded.
evaluate_and_save ==
    /\ pc = "loop"
    /\ needs_oracle(seen_maps, sample_data[i])
    /\ \E mask \in Masks :
         LET r == add_mapping(seen_maps, sample_data[i], grounded_data[i], mask) IN
         /\ oracle_calls' = oracle_calls \cup {i}
         /\ record_calls' = record_calls \cup {i}
         /\ IF r.ok
            THEN /\ grounded_data_list' =
                       Append(grounded_data_list, with_mask(grounded_data[i], mask))
                 /\ seen_maps' = r.self
                 /\ disk' = IF save_map_ok(disk) THEN save_map(disk, r.self) ELSE disk
                 /\ i' = i + 1
                 /\ pc' = loop_or_save(i + 1)
                 /\ err' = err
            ELSE /\ grounded_data_list' = <<>>
                 /\ seen_maps' = NoInstance
                 /\ disk' = disk
                 /\ i' = 1
                 /\ pc' = "crashed"
                 /\ err' = "add_mapping"
    /\ UNCHANGED <<sample_data, grounded_data, fidx, prev_done,
                   started_with, persisting, call, workflow_vars>>

\* One iteration on a sample the gate holds back: the oracle answers, the
\* answer is recorded; a raise in add_mapping ends the process.
evaluate ==
    /\ pc = "loop"
    /\ needs_oracle(seen_maps, sample_data[i])
    /\ \E mask \in Masks :
         LET r == add_mapping(seen_maps, sample_data[i], grounded_data[i], mask) IN
         /\ oracle_calls' = oracle_calls \cup {i}
         /\ record_calls' = record_calls \cup {i}
         /\ IF r.ok
            THEN /\ grounded_data_list' =
                       Append(grounded_data_list, with_mask(grounded_data[i], mask))
                 /\ seen_maps' = r.self
                 /\ i' = i + 1
                 /\ pc' = loop_or_save(i + 1)
                 /\ err' = err
            ELSE /\ grounded_data_list' = <<>>
                 /\ seen_maps' = NoInstance
                 /\ i' = 1
                 /\ pc' = "crashed"
                 /\ err' = "add_mapping"
    /\ UNCHANGED <<disk, sample_data, grounded_data, fidx, prev_done,
                   started_with, persisting, call, workflow_vars>>

\* One iteration on which llm_compare_labels raises: nothing catches it.
oracle_raises ==
    /\ pc = "loop"
    /\ needs_oracle(seen_maps, sample_data[i])
    /\ oracle_calls' = oracle_calls \cup {i}
    /\ grounded_data_list' = <<>>
    /\ seen_maps' = NoInstance
    /\ i' = 1
    /\ pc' = "crashed"
    /\ err' = "oracle"
    /\ UNCHANGED <<disk, sample_data, grounded_data, record_calls, fidx,
                   prev_done, started_with, persisting, call, workflow_vars>>

\* What save_map writes, file by file.
target(self) == Dir(Object(self.map_good), Object(self.map_bad), Object(self.map))

\* save_map on its next file: open(..., 'w') raises without the directory;
\* with it the file is emptied, written and closed. After the third file
\* check_groundings returns its list.
save_file ==
    /\ pc = "save"
    /\ IF open_w_ok(disk)
       THEN /\ disk' = dump_close(open_w(disk, FileOrder[fidx + 1]),
                                  FileOrder[fidx + 1], seen_maps)
            /\ persisting' = target(seen_maps)
            /\ fidx' = fidx + 1
            /\ pc' = IF fidx + 1 = Len(FileOrder) THEN "done" ELSE "save"
            /\ UNCHANGED <<seen_maps, grounded_data_list, i, err>>
       ELSE /\ pc' = "crashed"
            /\ err' = "save_map"
            /\ seen_maps' = NoInstance
            /\ grounded_data_list' = <<>>
            /\ i' = 1
            /\ UNCHANGED <<disk, persisting, fidx>>
    /\ UNCHANGED <<sample_data, grounded_data, oracle_calls, record_calls,
                   prev_done, started_with, call, workflow_vars>>

\* The process is interrupted in the loop or between two files of save_map:
\* what it held in memory is gone, the directory stays as it is.
interrupt ==
    /\ Running
    /\ pc' = "killed"
    /\ seen_maps' = NoInstance
    /\ grounded_data_list' = <<>>
    /\ i' = 1
    /\ UNCHANGED <<disk, sample_data, grounded_data, oracle_calls, record_calls,
                   fidx, err, prev_done, started_with, persisting, call, workflow_vars>>

\* The process is interrupted inside a with-block of save_map: the file it
\* has open is left empty or cut short.
interrupt_in_file ==
    /\ pc = "save"
    /\ open_w_ok(disk)
    /\ disk' = open_w(disk, FileOrder[fidx + 1])
    /\ persisting' = target(seen_maps)
    /\ pc' = "killed"
    /\ seen_maps' = NoInstance
    /\ grounded_data_list' = <<>>
    /\ i' = 1
    /\ UNCHANGED <<sample_data, grounded_data, oracle_calls, record_calls,
                   fidx, err, prev_done, started_with, call, workflow_vars>>

\* check_groundings has returned; the script is run again on the same batch
\* and the same directory.
rerun ==
    /\ pc = "done"
    /\ prev_done' = TRUE
    /\ pc' = "start"
    /\ seen_maps' = NoInstance
    /\ grounded_data_list' = <<>>
    /\ i' = 1
    /\ oracle_calls' = {}
    /\ record_calls' = {}
    /\ fidx' = 0
    /\ err' = "none"
    /\ started_with' = disk
    /\ persisting' = NotPersisting
    /\ UNCHANGED <<disk, sample_data, grounded_data, call, workflow_vars>>

\* ------------------------------------ the LabelMap interface on its own

\* The term the lookup service knows for a label, if any; a lookup may also
\* fail, which leaves the sentinel.
Candidate == [l \in Labels |->
                 IF l = "leaf" THEN "PO:1" ELSE IF l = "salt" THEN "CHEBI:2" ELSE None]
IdsFor(l) == {Candidate[l], None}

LabelLists == UNION {[1..n -> Labels] : n \in 0..MaxTreat}

\* Samples: an id, a tissue or none, a treatment list, a medium or none, the
\* tissue before or after the list.
Samples ==
    LET ids == <<Scalar("id", "x")>>
        tis == {<<>>} \cup {<<Scalar("tissue", l)>> : l \in Labels}
        trs == {<<ListField("treatment", t)>> : t \in LabelLists}
        med == {<<>>, <<Scalar("medium", "agar")>>}
    IN  {ids \o a \o b \o c : a \in tis, b \in trs, c \in med}
        \cup {ids \o b \o a : a \in tis \ {<<>>}, b \in trs}

\* The groundings of a sample's shape: a term record per label, other
\* entries copied. Within a list a label is looked up once (the lookups are
\* memoized); the tissue is looked up on its own.
RefLists(terms) ==
    {r \in [1..Len(terms) -> {TermRef(id) : id \in Ids}] :
        \A n \in 1..Len(terms) :
            /\ r[n].uniq_id \in IdsFor(terms[n])
            /\ \A k \in 1..Len(terms) : terms[k] = terms[n] => r[k] = r[n]}
EntryGroundings(e) ==
    IF e.list THEN {ListField(e.key, r) : r \in RefLists(e.val)}
    ELSE IF e.key = "tissue" THEN {Scalar(e.key, TermRef(id)) : id \in IdsFor(e.val)}
    ELSE {e}
RECURSIVE GroundingsFrom(_, _)
GroundingsFrom(og, n) ==
    IF n > Len(og) THEN {<<>>}
    ELSE {<<e>> \o rest : e \in EntryGroundings(og[n]),
                          rest \in GroundingsFrom(og, n + 1)}
GroundingsOf(og) == GroundingsFrom(og, 1)

InitLabelMap ==
    /\ disk \in DiskStates
    /\ seen_maps = LabelMap(disk)
    /\ call = [op |-> "init"]
    /\ pc = "api"
    /\ sample_data = <<>>
    /\ grounded_data = <<>>
    /\ i = 1
    /\ grounded_data_list = <<>>
    /\ oracle_calls = {}
    /\ record_calls = {}
    /\ fidx = 0
    /\ err = "none"
    /\ prev_done = FALSE
    /\ started_with = disk
    /\ persisting = NotPersisting
    /\ Idle

\* One call of add_mapping on a freshly constructed LabelMap.
call_add_mapping ==
    /\ call.op = "init"
    /\ \E og \in Samples : \E grounded \in GroundingsOf(og) : \E mask \in Verdicts :
         LET r == add_mapping(seen_maps, og, grounded, mask) IN
         /\ seen_maps' = r.self
         /\ call' = [op |-> "add_mapping", og |-> og, grounded |-> grounded,
                     mask |-> mask, ok |-> r.ok, before |-> seen_maps]
    /\ UNCHANGED <<disk, sample_data, grounded_data, pc, i, grounded_data_list,
                   oracle_calls, record_calls, fidx, err, prev_done,
                   started_with, persisting, workflow_vars>>

\* One call of check_past on a freshly constructed LabelMap.
call_check_past ==
    /\ call.op = "init"
    /\ \E sample \in Samples :
         call' = [op |-> "check_past", sample |-> sample,
                  result |-> check_past(seen_maps, sample)]
    /\ UNCHANGED <<disk, seen_maps, sample_data, grounded_data, pc, i,
                   grounded_data_list, oracle_calls, record_calls, fidx, err,
                   prev_done, started_with, persisting, workflow_vars>>

\* save_map called on a freshly constructed LabelMap, and called once more
\* right after.
call_save_map ==
    /\ call.op \in {"init", "save_map"}
    /\ call.op = "save_map" => ~call.again
    /\ call' = [op |-> "save_map", again |-> (call.op = "save_map"),
                ok |-> save_map_ok(disk), before |-> disk]
    /\ disk' = IF save_map_ok(disk) THEN save_map(disk, seen_maps) ELSE disk
    /\ UNCHANGED <<seen_maps, sample_data, grounded_data, pc, i,
                   grounded_data_list, oracle_calls, record_calls, fidx, err,
                   prev_done, started_with, persisting, workflow_vars>>

NextLabelMap ==
    \/ call_add_mapping
    \/ call_check_past
    \/ call_save_map

SpecLabelMap == InitLabelMap /\ [][NextLabelMap]_vars

Next ==
    \/ check_groundings_start
    \/ keep_original
    \/ evaluate
    \/ oracle_raises
    \/ save_file
    \/ interrupt
    \/ interrupt_in_file
    \/ rerun

Spec == Init /\ [][Next]_vars

\* --------------------------------------------------------- the resolver

\* The ontologies get_ols_information probes, in its order, and the label
\* each of them holds for a term.
Ontology == <<"pso", "peco", "efo">>
OlsLabel(ON, id) ==
    IF ON = "efo" THEN (IF id = "PO:1" THEN "foliage" ELSE "salt")
    ELSE TermLabel(id)

\* What the search for a label meets: a candidate, no annotation, or a
\* request that fails (timeout, HTTP error status). What the three probes
\* for a term meet, each: a 404, a term, or a request or body that fails.
SearchOutcomes(l) ==
    IF Candidate[l] = None THEN {"none", "error"} ELSE {"hit", "none", "error"}
DescribeOutcomes ==
    { <<"ok", "404", "404">>, <<"404", "ok", "ok">>, <<"404", "404", "404">>,
      <<"ok", "error", "404">> }
Services ==
    {svc \in [search : [Labels -> {"hit", "none", "error"}],
              describe : [TermIds -> DescribeOutcomes]] :
        \A l \in Labels : svc.search[l] \in SearchOutcomes(l)}

\* An Optional[list]: None, or the semantic tags of the top annotation.
NoTags == [none |-> TRUE, tags |-> <<>>]
Tags(t) == [none |-> FALSE, tags |-> t]

\* get_top_ontology_class_label: a failed request and an answer without
\* annotations both give None.
get_top_ontology_class_label(svc, term) ==
    IF svc.search[term] = "hit" THEN Tags(<<Candidate[term]>>) ELSE NoTags

\* get_ols_information: the loop over the ontologies, carrying output_dict;
\* ok is FALSE when a probe raises.
RECURSIVE probe(_, _, _, _)
probe(svc, ols_code, n, output_dict) ==
    IF n > Len(Ontology) THEN [ok |-> TRUE, val |-> output_dict]
    ELSE IF svc.describe[ols_code][n] = "404"
         THEN probe(svc, ols_code, n + 1, output_dict)
    ELSE IF svc.describe[ols_code][n] = "ok"
         THEN probe(svc, ols_code, n + 1,
                    [uniq_id |-> ols_code, label |-> OlsLabel(Ontology[n], ols_code)])
    ELSE [ok |-> FALSE, val |-> output_dict]
get_ols_information(svc, ols_code) == probe(svc, ols_code, 1, Sentinel)

\* d[k] = v on a sample-shaped dict.
SetItem(d, k, v) ==
    [n \in 1..Len(d) |-> IF d[n].key = k THEN [d[n] EXCEPT !.val = v] ELSE d[n]]

\* The samples the resolver is run on: the batch, 'medium' removed, and a
\* sample without a tissue.
NoTissue == <<Scalar("id", "d"), ListField("treatment", <<"heat">>)>>
RawItems == {strip_medium(it.og) : it \in Items} \cup {NoTissue}
RawBatches == UNION {[1..n -> RawItems] : n \in 0..MaxSamples}

\* The locals of a call on sample `data`: grounded_data = data.copy().
enter(data) == [active |-> TRUE, grounded_data |-> data,
                grounded_treatments |-> <<>>, n |-> 1]

has_tissue(data) == "tissue" \in Keys(data) /\ ~Get(data, "tissue").list
has_treatment(data) == "treatment" \in Keys(data) /\ Get(data, "treatment").list

InitResolver ==
    /\ service \in Services
    /\ sample_data \in RawBatches
    /\ grounded_data = <<>>
    /\ i = 1
    /\ pc = IF sample_data = <<>> THEN "resolved" ELSE "tissue"
    /\ frame = IF sample_data = <<>> THEN NoFrame ELSE enter(sample_data[1])
    /\ disk = NoDir
    /\ seen_maps = NoInstance
    /\ grounded_data_list = <<>>
    /\ oracle_calls = {}
    /\ record_calls = {}
    /\ fidx = 0
    /\ err = "none"
    /\ prev_done = FALSE
    /\ started_with = disk
    /\ persisting = NotPersisting
    /\ call = NoCall
    /\ session = NoSession
    /\ emitted = NothingEmitted

\* The exception leaves ground_labels_with_api_call and the script.
resolver_raises(what) ==
    /\ pc' = "raised"
    /\ err' = what
    /\ frame' = NoFrame

\* The 'tissue' part of ground_labels_with_api_call.
ground_tissue ==
    /\ pc = "tissue"
    /\ IF has_tissue(frame.grounded_data)
       THEN LET term == Get(frame.grounded_data, "tissue").val
                api_response == get_top_ontology_class_label(service, term)
                ols_info == get_ols_information(service, api_response.tags[1])
            IN  IF api_response.none THEN resolver_raises("TypeError")
                ELSE IF ~ols_info.ok THEN resolver_raises("get_ols_information")
                ELSE /\ frame' = [frame EXCEPT !.grounded_data =
                                     SetItem(@, "tissue", ols_info.val)]
                     /\ pc' = "treatment"
                     /\ err' = err
       ELSE /\ pc' = "treatment"
            /\ UNCHANGED <<frame, err>>
    /\ UNCHANGED <<disk, sample_data, grounded_data, seen_maps, i,
                   grounded_data_list, oracle_calls, record_calls, fidx,
                   prev_done, started_with, persisting, call, service,
                   session, emitted>>

\* A treatment for which nothing was found is dropped.
drop_unresolved(grounded_treatments) == grounded_treatments

\* The else branch of the treatment loop: the unresolved record is appended.
append_unresolved(grounded_treatments) == Append(grounded_treatments, Sentinel)

\* One iteration of the treatment loop.
ground_treatment_term ==
    /\ pc = "treatment"
    /\ has_treatment(frame.grounded_data)
    /\ frame.n <= Len(Get(frame.grounded_data, "treatment").val)
    /\ LET term == Get(frame.grounded_data, "treatment").val[frame.n]
           api_response == get_top_ontology_class_label(service, term)
           ols_info == get_ols_information(service, api_response.tags[1])
       IN  IF ~api_response.none
           THEN IF ols_info.ok
                THEN /\ frame' = [frame EXCEPT
                            !.grounded_treatments = Append(@, ols_info.val),
                            !.n = @ + 1]
                     /\ UNCHANGED <<pc, err>>
                ELSE resolver_raises("get_ols_information")
           ELSE /\ frame' = [frame EXCEPT
                       !.grounded_treatments = append_unresolved(@),
                       !.n = @ + 1]
                /\ UNCHANGED <<pc, err>>
    /\ UNCHANGED <<disk, sample_data, grounded_data, seen_maps, i,
                   grounded_data_list, oracle_calls, record_calls, fidx,
                   prev_done, started_with, persisting, call, service,
                   session, emitted>>

\* The treatment loop is over: the call returns, the script appends the
\* grounding and goes on to the next sample.
ground_return ==
    /\ pc = "treatment"
    /\ has_treatment(frame.grounded_data)
          => frame.n > Len(Get(frame.grounded_data, "treatment").val)
    /\ grounded_data' = Append(grounded_data,
          IF has_treatment(frame.grounded_data)
          THEN SetItem(frame.grounded_data, "treatment", frame.grounded_treatments)
          ELSE frame.grounded_data)
    /\ i' = i + 1
    /\ IF i + 1 > Len(sample_data)
       THEN pc' = "resolved" /\ frame' = NoFrame
       ELSE pc' = "tissue" /\ frame' = enter(sample_data[i + 1])
    /\ UNCHANGED <<disk, sample_data, seen_maps, grounded_data_list,
                   oracle_calls, record_calls, fidx, err, prev_done,
                   started_with, persisting, call, service, session, emitted>>

NextResolver ==
    \/ ground_tissue
    \/ ground_treatment_term
    \/ ground_return

SpecResolver == InitResolver /\ [][NextResolver]_vars

\* ------------------------------------------------------ manual correction

\* What the operator may type at a prompt, and input(...).strip() of it.
Answers == {"", "root", " stem "}
strip(a) == IF a = " stem " THEN "stem" ELSE a

\* The batch manual_correction is called on: the samples and the groundings
\* the resolver left in memory for them.
ItemD == [og |-> NoTissue,
          grounded |-> <<Scalar("id", "d"), ListField("treatment", <<Sentinel>>)>>]
ItemE == [og |-> <<Scalar("id", "e"), Scalar("tissue", "salt"),
                   ListField("treatment", <<"salt", "leaf">>)>>,
          grounded |-> <<Scalar("id", "e"), Scalar("tissue", TermRef("CHEBI:2")),
                   ListField("treatment", <<TermRef("CHEBI:2"), TermRef("PO:1")>>)>>]
\* A grounding position that holds no term record but the raw text, as the
\* older resolver (src/main.py) leaves an unresolved label.
Raw(text) == [raw |-> text]
\* isinstance(v, dict)
IsDict(v) == "raw" \notin DOMAIN v
ItemF == [og |-> <<Scalar("id", "f"), Scalar("tissue", "heat"),
                   ListField("treatment", <<"heat">>)>>,
          grounded |-> <<Scalar("id", "f"), Scalar("tissue", Raw("heat")),
                   ListField("treatment", <<Raw("heat")>>)>>]
CorrectionItems == {ItemC, ItemD, ItemE, ItemF}
CorrectionBatches == UNION {[1..n -> CorrectionItems] : n \in 0..MaxSamples}

\* What maps_path may hold when a correction session starts.
CorrectionDisks ==
    { NoDir,
      Dir(Object("leaf" :> "PO:1"), Object("heat" :> None), Object(EmptyMap)),
      Dir(Object("leaf" :> "PO:1"), Object("salt" :> "CHEBI:2" @@ "heat" :> None),
          Object("salt" :> "CHEBI:2")),
      Dir(Object("salt" :> "CHEBI:2"), Object("Unknown" :> None @@ "leaf" :> "PO:1"),
          Object(EmptyMap)) }

\* The dict object behind the term record at a position of the groundings:
\* get_ols_information is memoized, so every position grounded to one term
\* holds the one dict the cache keeps for it; an unresolved treatment holds a
\* dict literal of its own. k is 0 for the tissue.
ObjectAt(g, m, key, k) ==
    LET e == Get(g[m], key)
        ref == IF e.list THEN e.val[k] ELSE e.val
    IN  IF IsDict(ref) /\ ref.uniq_id # None
        THEN [code |-> ref.uniq_id, m |-> 0, key |-> "", k |-> 0]
        ELSE [code |-> None, m |-> m, key |-> key, k |-> k]

\* A copy that is the list it was given.
same_list(g) == [data |-> g, own |-> FALSE]

\* copy.deepcopy: new objects throughout, shared ones staying shared among
\* themselves (own: none of them is an object of the input).
deepcopy(g) == [data |-> g, own |-> TRUE]

\* obj['label'] = new_label, seen through every position that holds obj.
set_label(g, data, obj, new_label) ==
    [m \in 1..Len(data) |->
        [n \in 1..Len(data[m]) |->
            LET e == data[m][n] IN
            IF e.key = "tissue" /\ ~e.list
            THEN IF IsDict(e.val) /\ ObjectAt(g, m, "tissue", 0) = obj
                 THEN [e EXCEPT !.val.label = new_label] ELSE e
            ELSE IF e.key = "treatment" /\ e.list
            THEN [e EXCEPT !.val =
                    [k \in 1..Len(e.val) |->
                        IF IsDict(e.val[k]) /\ ObjectAt(g, m, "treatment", k) = obj
                        THEN [e.val[k] EXCEPT !.label = new_label]
                        ELSE e.val[k]]]
            ELSE e]]

\* A defaultdict(list) in insertion order: pool[key].append(item).
pool_append(pool, key, item) ==
    IF \E n \in 1..Len(pool) : pool[n].key = key
    THEN [n \in 1..Len(pool) |->
            IF pool[n].key = key
            THEN [pool[n] EXCEPT !.items = Append(@, item)] ELSE pool[n]]
    ELSE Append(pool, [key |-> key, items |-> <<item>>])

\* og.get('tissue', 'Unknown')
tissue_label(og) == IF "tissue" \in Keys(og) THEN Get(og, "tissue").val ELSE "Unknown"
\* og.get('treatment', [])
treatments(og) == IF "treatment" \in Keys(og) THEN Get(og, "treatment").val ELSE <<>>

\* The collecting loop: the pools after samples m.. of the batch. A tissue
\* pool holds samples, a treatment pool positions <<m, k>>.
RECURSIVE collect_tissue(_, _, _, _)
collect_tissue(bad_map, samples, m, pool) ==
    IF m > Len(samples) THEN pool
    ELSE collect_tissue(bad_map, samples, m + 1,
            IF tissue_label(samples[m]) \in DOMAIN bad_map
            THEN pool_append(pool, tissue_label(samples[m]), m) ELSE pool)

RECURSIVE collect_terms(_, _, _, _, _)
collect_terms(bad_map, terms, m, k, pool) ==
    IF k > Len(terms) THEN pool
    ELSE collect_terms(bad_map, terms, m, k + 1,
            IF terms[k] \in DOMAIN bad_map
            THEN pool_append(pool, terms[k], <<m, k>>) ELSE pool)

RECURSIVE collect_treatment(_, _, _, _)
collect_treatment(bad_map, samples, m, pool) ==
    IF m > Len(samples) THEN pool
    ELSE collect_treatment(bad_map, samples, m + 1,
            collect_terms(bad_map, treatments(samples[m]), m, 1, pool))

\* Where the session goes once the tissue pool is through up to cursor t.
after_tissue(tissue_pool, treatment_pool, t) ==
    IF t <= Len(tissue_pool) THEN "mc_tissue"
    ELSE IF treatment_pool # <<>> THEN "mc_treatment" ELSE "mc_emit"

InitCorrection ==
    /\ disk \in CorrectionDisks
    /\ \E b \in CorrectionBatches :
          /\ sample_data = [n \in DOMAIN b |-> strip_medium(b[n].og)]
          /\ grounded_data = [n \in DOMAIN b |-> b[n].grounded]
    /\ pc = "mc_start"
    /\ started_with = disk
    /\ prev_done = FALSE
    /\ seen_maps = NoInstance
    /\ session = NoSession
    /\ emitted = NothingEmitted
    /\ service = NoService
    /\ frame = NoFrame
    /\ i = 1
    /\ grounded_data_list = <<>>
    /\ oracle_calls = {}
    /\ record_calls = {}
    /\ fidx = 0
    /\ err = "none"
    /\ persisting = NotPersisting
    /\ call = NoCall

\* manual_correction up to its prompts: the directory is made, the maps are
\* loaded, the groundings copied and the pools collected.
manual_correction_start ==
    /\ pc = "mc_start"
    /\ disk' = [disk EXCEPT !.dir = TRUE]
    /\ seen_maps' = LabelMap(disk)
    /\ LET bad_map == LabelMap(disk).map_bad
           copy == deepcopy(grounded_data)
           tissue_pool == collect_tissue(bad_map, sample_data, 1, <<>>)
           treatment_pool == collect_treatment(bad_map, sample_data, 1, <<>>)
       IN  /\ session' = [active |-> TRUE,
                          corrected_data |-> copy.data,
                          own |-> copy.own,
                          manual_corrections |->
                              [tissue |-> EmptyMap, treatment |-> EmptyMap],
                          tissue_pool |-> tissue_pool,
                          treatment_pool |-> treatment_pool,
                          t |-> 1,
                          prompts |-> <<>>]
           /\ pc' = IF tissue_pool = <<>> /\ treatment_pool = <<>>
                    THEN "mc_nothing"
                    ELSE after_tissue(tissue_pool, treatment_pool, 1)
    /\ UNCHANGED <<sample_data, grounded_data, i, grounded_data_list,
                   oracle_calls, record_calls, fidx, err, prev_done,
                   started_with, persisting, call, service, frame, emitted>>

\* The two documents of a session.
documents(manual_corrections, corrected_data) ==
    [manual_corrections |-> [kind |-> "object", value |-> manual_corrections],
     corrected_grounded_data |-> [kind |-> "object", value |-> corrected_data]]

\* Both pools are empty: the documents are written and the call returns.
nothing_to_correct ==
    /\ pc = "mc_nothing"
    /\ emitted' = documents(session.manual_corrections, session.corrected_data)
    /\ pc' = "mc_done"
    /\ UNCHANGED <<disk, sample_data, grounded_data, seen_maps, i,
                   grounded_data_list, oracle_calls, record_calls, fidx, err,
                   prev_done, started_with, persisting, call, service, frame,
                   session>>

\* for grd in lst of a tissue pool: the label of the sample's tissue record
\* is overwritten, a tissue that is no record is replaced by a record with
\* the label; a sample without the field gets nothing.
RECURSIVE correct_samples(_, _, _, _, _)
correct_samples(g, data, lst, n, new_label) ==
    IF n > Len(lst) THEN data
    ELSE correct_samples(g,
            IF "tissue" \in Keys(data[lst[n]])
            THEN IF IsDict(Get(data[lst[n]], "tissue").val)
                 THEN set_label(g, data, ObjectAt(g, lst[n], "tissue", 0), new_label)
                 ELSE [data EXCEPT ![lst[n]] =
                          SetItem(@, "tissue", [label |-> new_label])]
            ELSE data,
            lst, n + 1, new_label)

\* for grd in lst of a treatment pool: the label of the record is
\* overwritten; for an element that is no record only the loop variable is
\* bound anew, the groundings stay as they are.
RECURSIVE correct_terms(_, _, _, _, _)
correct_terms(g, data, lst, n, new_label) ==
    IF n > Len(lst) THEN data
    ELSE correct_terms(g,
            IF IsDict(Get(data[lst[n][1]], "treatment").val[lst[n][2]])
            THEN set_label(g, data, ObjectAt(g, lst[n][1], "treatment", lst[n][2]),
                           new_label)
            ELSE data,
            lst, n + 1, new_label)

\* The input batch after an overwrite: untouched when the session works on
\* objects of its own.
input_after(own, corrected) == IF own THEN grounded_data ELSE corrected

\* One iteration of the tissue loop: the prompt, and the overwrite when the
\* answer is not empty.
correct_tissue ==
    /\ pc = "mc_tissue"
    /\ \E answer \in Answers :
         LET entry == session.tissue_pool[session.t]
             new_label == strip(answer)
             corrected == IF new_label # ""
                          THEN correct_samples(grounded_data, session.corrected_data,
                                               entry.items, 1, new_label)
                          ELSE session.corrected_data
         IN  /\ session' = [session EXCEPT
                    !.prompts = Append(@, [field |-> "tissue", key |-> entry.key,
                                           answer |-> answer]),
                    !.manual_corrections.tissue =
                        IF new_label # "" THEN Put(@, entry.key, new_label) ELSE @,
                    !.corrected_data = corrected,
                    !.t = IF session.t = Len(session.tissue_pool) THEN 1 ELSE @ + 1]
             /\ grounded_data' = input_after(session.own, corrected)
             /\ pc' = after_tissue(session.tissue_pool, session.treatment_pool,
                                   session.t + 1)
    /\ UNCHANGED <<disk, sample_data, seen_maps, i, grounded_data_list,
                   oracle_calls, record_calls, fidx, err, prev_done,
                   started_with, persisting, call, service, frame, emitted>>

\* One iteration of the treatment loop.
correct_treatment ==
    /\ pc = "mc_treatment"
    /\ \E answer \in Answers :
         LET entry == session.treatment_pool[session.t]
             new_label == strip(answer)
             corrected == IF new_label # ""
                          THEN correct_terms(grounded_data, session.corrected_data,
                                             entry.items, 1, new_label)
                          ELSE session.corrected_data
         IN  /\ session' = [session EXCEPT
                    !.prompts = Append(@, [field |-> "treatment", key |-> entry.key,
                                           answer |-> answer]),
                    !.manual_corrections.treatment =
                        IF new_label # "" THEN Put(@, entry.key, new_label) ELSE @,
                    !.corrected_data = corrected,
                    !.t = @ + 1]
             /\ grounded_data' = input_after(session.own, corrected)
             /\ pc' = IF session.t = Len(session.treatment_pool)
                      THEN "mc_emit" ELSE "mc_treatment"
    /\ UNCHANGED <<disk, sample_data, seen_maps, i, grounded_data_list,
                   oracle_calls, record_calls, fidx, err, prev_done,
                   started_with, persisting, call, service, frame, emitted>>

\* A session end that also writes the maps out, the corrected labels taken
\* off map_bad.
save_corrections_and_maps ==
    /\ pc = "mc_emit"
    /\ emitted' = documents(session.manual_corrections, session.corrected_data)
    /\ disk' = save_map(disk,
          [seen_maps EXCEPT !.map_bad =
              [l \in (DOMAIN @) \ ((DOMAIN session.manual_corrections.tissue)
                        \cup (DOMAIN session.manual_corrections.treatment))
                  |-> @[l]]])
    /\ pc' = "mc_done"
    /\ UNCHANGED <<sample_data, grounded_data, seen_maps, i,
                   grounded_data_list, oracle_calls, record_calls, fidx, err,
                   prev_done, started_with, persisting, call, service, frame,
                   session>>

\* The end of manual_correction: the two documents are written and the call
\* returns.
save_corrections ==
    /\ pc = "mc_emit"
    /\ emitted' = documents(session.manual_corrections, session.corrected_data)
    /\ pc' = "mc_done"
    /\ UNCHANGED <<disk, sample_data, grounded_data, seen_maps, i,
                   grounded_data_list, oracle_calls, record_calls, fidx, err,
                   prev_done, started_with, persisting, call, service, frame,
                   session>>

\* The workflow is run once more on the same batch and the same directory.
next_session ==
    /\ pc = "mc_done"
    /\ ~prev_done
    /\ prev_done' = TRUE
    /\ pc' = "mc_start"
    /\ session' = NoSession
    /\ seen_maps' = NoInstance
    /\ UNCHANGED <<disk, sample_data, grounded_data, i, grounded_data_list,
                   oracle_calls, record_calls, fidx, err, started_with,
                   persisting, call, service, frame, emitted>>

NextCorrection ==
    \/ manual_correction_start
    \/ nothing_to_correct
    \/ correct_tissue
    \/ correct_treatment
    \/ save_corrections
    \/ next_session

SpecCorrection == InitCorrection /\ [][NextCorrection]_vars

\* --------------------------------------------------------------- claims

\* The raw labels of a sample: list elements and scalar values, the
\* identifier field left out.
RawLabels(sample) ==
    UNION {IF sample[n].list THEN {sample[n].val[k] : k \in 1..Len(sample[n].val)}
           ELSE IF sample[n].key = "id" THEN {} ELSE {sample[n].val}
           : n \in 1..Len(sample)}
Settled(self) == (DOMAIN self.map_good) \cup (DOMAIN self.map_bad)

\* C1: in every cache state and for every sample, check_past is true exactly
\* when some raw label of the sample (identifier excluded) is a key of
\* neither map_good nor map_bad, whatever the legacy map holds.
C1_CheckPastIffUnsettled ==
    call.op = "check_past" =>
        (call.result <=> (RawLabels(call.sample) \ Settled(seen_maps) # {}))

\* C1 witness: check_past has answered true on a sample all of whose
\* unsettled labels the legacy map knows.
C1_Witness ==
    /\ call.op = "check_past"
    /\ call.result
    /\ RawLabels(call.sample) \ Settled(seen_maps) # {}
    /\ RawLabels(call.sample) \ Settled(seen_maps) \subseteq DOMAIN seen_maps.map

\* The positions add_mapping records, in the order it visits them: for each a
\* label, the uniq_id of the grounding there and the verdict there.
PositionsOfEntry(e, grounded, mask) ==
    IF e.list
    THEN [n \in 1..Len(e.val) |->
            [label |-> e.val[n], id |-> Get(grounded, e.key).val[n].uniq_id,
             verdict |-> mask[e.key][n]]]
    ELSE IF e.key \in {"id", "medium"} THEN <<>>
    ELSE <<[label |-> e.val, id |-> Get(grounded, e.key).val.uniq_id,
            verdict |-> mask[e.key]]>>
RECURSIVE PositionsFrom(_, _, _, _)
PositionsFrom(og, grounded, mask, n) ==
    IF n > Len(og) THEN <<>>
    ELSE PositionsOfEntry(og[n], grounded, mask)
             \o PositionsFrom(og, grounded, mask, n + 1)
Positions(og, grounded, mask) == PositionsFrom(og, grounded, mask, 1)

\* The verdict has the sample's shape: a boolean per scalar label, a list of
\* the same length per list field.
SameShape(og, mask) ==
    \A n \in 1..Len(og) :
        IF og[n].list
        THEN og[n].key \in DOMAIN mask /\ Len(mask[og[n].key]) = Len(og[n].val)
        ELSE og[n].key = "id" \/ og[n].key \in DOMAIN mask

HasEntry(m, k, v) == k \in DOMAIN m /\ m[k] = v

\* The map m after the positions of ps with verdict v, the last one of a
\* label deciding its id.
Recorded(m, ps, v) ==
    LET hit(l) == {n \in 1..Len(ps) : ps[n].label = l /\ ps[n].verdict = v}
        last(l) == CHOOSE n \in hit(l) : \A k \in hit(l) : k <= n
    IN  [l \in (DOMAIN m) \cup {ps[n].label : n \in {k \in 1..Len(ps) : ps[k].verdict = v}}
            |-> IF hit(l) # {} THEN ps[last(l)].id ELSE m[l]]

ExampleOg == <<Scalar("id", "x"), Scalar("tissue", "leaf"),
               ListField("treatment", <<"heat", "salt">>)>>
ExampleGrounded == <<Scalar("id", "x"), Scalar("tissue", TermRef("PO:1")),
                     ListField("treatment", <<Sentinel, TermRef("CHEBI:2")>>)>>
ExampleMask == [tissue |-> TRUE, treatment |-> <<FALSE, TRUE>>]
IsExampleCall ==
    /\ call.op = "add_mapping"
    /\ call.before = EmptyLabelMap
    /\ call.og = ExampleOg
    /\ call.grounded = ExampleGrounded
    /\ call.mask = ExampleMask
ExampleResult ==
    /\ seen_maps.map_good = ("leaf" :> "PO:1" @@ "salt" :> "CHEBI:2")
    /\ seen_maps.map_bad = ("heat" :> None)

C3_SettledStaysSettled ==
    [][(seen_maps # NoInstance /\ seen_maps' # NoInstance)
          => Settled(seen_maps) \subseteq Settled(seen_maps')]_vars

\* C3 witness: two add_mapping calls on one instance, after which a label of
\* the first is classified both ways.
C3_Witness ==
    /\ record_calls = {1, 2}
    /\ seen_maps # NoInstance
    /\ (DOMAIN seen_maps.map_good) \cap (DOMAIN seen_maps.map_bad) # {}

C5_OracleGatedOnSettledness ==
    [][(pc = "loop" /\ pc' # "killed") =>
          LET need == RawLabels(sample_data[i]) \ Settled(seen_maps) # {} IN
          /\ (i \in oracle_calls') <=> need
          /\ oracle_calls' \ {i} = oracle_calls
          /\ ~need => /\ record_calls' = record_calls
                      /\ seen_maps' = seen_maps
                      /\ grounded_data_list' =
                             Append(grounded_data_list, grounded_data[i])]_vars

\* C5 witness: on an empty cache the first sample went to the oracle and the
\* second, whose labels the first had settled, was passed through.
C5_Witness ==
    /\ LabelMap(started_with) = EmptyLabelMap
    /\ Len(grounded_data_list) = 2
    /\ oracle_calls = {1}
    /\ RawLabels(sample_data[2]) # {}
    /\ grounded_data_list[2] = grounded_data[2]

\* C6: once save_map has completed, a LabelMap constructed from the same
\* path holds the three maps that were persisted.
C6_RoundTrip ==
    pc = "done" =>
        /\ LabelMap(disk).map_good = seen_maps.map_good
        /\ LabelMap(disk).map_bad = seen_maps.map_bad
        /\ LabelMap(disk).map = seen_maps.map

\* C6 witness: a cache with a recorded verdict, a sentinel id and a legacy
\* entry has been persisted.
C6_Witness ==
    /\ pc = "done"
    /\ record_calls # {}
    /\ \E l \in DOMAIN seen_maps.map_bad : seen_maps.map_bad[l] = None
    /\ seen_maps.map # EmptyMap

\* C7: until save_map has begun, the directory and its documents are as the
\* run found them, also after an interruption or a crash.
C7_DiskUntouchedBeforePersist ==
    ~persisting.dir => disk = started_with

\* C7 witness: the process was interrupted after an add_mapping call and
\* before save_map.
C7_Witness ==
    /\ pc = "killed"
    /\ record_calls # {}
    /\ ~persisting.dir

\* C8 as stated: after an interruption during save_map the three documents
\* are those of before the persist or those being persisted, never a mixture.
C8_PersistAtomic ==
    (pc = "killed" /\ persisting.dir) => disk \in {started_with, persisting}

\* C9: constructing a LabelMap from a directory in which a document is
\* missing or unreadable does not fail and leaves three empty maps.
Unreadable(d) == \E f \in Files : d[f].kind \in {"absent", "corrupt"}
C9_EmptyOnUnreadableStorage ==
    [][(pc = "start" /\ Unreadable(disk)) =>
          /\ pc' \in {"loop", "save"}
          /\ seen_maps' = EmptyLabelMap]_vars

\* C9 witness: a LabelMap was constructed from a directory whose map_good
\* document was readable and whose map_bad document was not.
C9_Witness ==
    /\ pc = "loop"
    /\ i = 1
    /\ started_with.map_good.kind = "object"
    /\ started_with.map_bad.kind = "corrupt"
    /\ seen_maps = EmptyLabelMap

\* C10 as stated: a second save_map in a row leaves the documents as the
\* first left them, and save_map on three empty maps succeeds and leaves
\* three documents each holding an empty mapping.
C10_SaveIdempotentAndSafeOnEmpty ==
    call.op = "save_map" =>
        /\ call.again => disk = call.before
        /\ seen_maps = EmptyLabelMap =>
              /\ call.ok
              /\ disk = Dir(Object(EmptyMap), Object(EmptyMap), Object(EmptyMap))

\* The verdict the loop has just recorded: the mask it appended with the
\* grounding.
LastMask(list) == Get(list[Len(list)], "mask").val

\* C11 as stated: once add_mapping has run for sample i, every raw label of
\* the sample is held under the classification of its last verdict only, with
\* the term id of that position: a key of map_good and not of map_bad when
\* the verdict was true, a key of map_bad and not of map_good when false.
C11_LastVerdictOnly ==
    [][(pc = "loop" /\ i \in record_calls' /\ seen_maps' # NoInstance) =>
          LET ps == Positions(sample_data[i], grounded_data[i],
                              LastMask(grounded_data_list'))
              last(l) == CHOOSE n \in 1..Len(ps) :
                            /\ ps[n].label = l
                            /\ \A k \in 1..Len(ps) : ps[k].label = l => k <= n
          IN  \A n \in 1..Len(ps) :
                 LET l == ps[n].label IN
                 IF ps[last(l)].verdict
                 THEN /\ HasEntry(seen_maps'.map_good, l, ps[last(l)].id)
                      /\ l \notin DOMAIN seen_maps'.map_bad
                 ELSE /\ HasEntry(seen_maps'.map_bad, l, ps[last(l)].id)
                      /\ l \notin DOMAIN seen_maps'.map_good]_vars

\* C12 as stated: add_mapping raises whenever the verdict lacks a field of
\* the sample other than 'id' or holds, for a list field, a list shorter or
\* longer than the sample's; with a verdict of the sample's shape it returns,
\* and the value under 'id' is never made a key of a map.
C12_FailsOnShapeMismatch ==
    call.op = "add_mapping" =>
        /\ call.ok <=> SameShape(call.og, call.mask)
        /\ Get(call.og, "id").val \notin
              (DOMAIN seen_maps.map_good) \cup (DOMAIN seen_maps.map_bad)
                 \cup (DOMAIN seen_maps.map)

\* C13 as stated: when the oracle raises on sample i, the loop goes on to
\* the remaining samples (or, after the last one, to save_map) with the
\* verdicts recorded so far still held, so that they reach the documents.
C13_OracleFailureSkipsSample ==
    [][(pc = "loop" /\ pc' # "killed"
           /\ i \in oracle_calls' /\ i \notin record_calls') =>
          /\ pc' = loop_or_save(i + 1)
          /\ seen_maps' = seen_maps]_vars

\* What the lookups give for a raw label: the record of the term when the
\* search has a candidate, the unresolved record when it has none or fails.
Resolution(l) ==
    IF service.search[l] = "hit"
    THEN get_ols_information(service, Candidate[l]).val
    ELSE Sentinel

\* C14: every grounding ground_labels_with_api_call has returned holds, for
\* a 'treatment' list of N raw labels, exactly N elements, element k being
\* what the lookups gave for raw label k and the unresolved record wherever
\* the search found nothing or failed.
C14_TreatmentAligned ==
    \A m \in 1..Len(grounded_data) :
        has_treatment(sample_data[m]) =>
            LET raw == Get(sample_data[m], "treatment").val
                g == Get(grounded_data[m], "treatment").val
            IN  /\ Len(g) = Len(raw)
                /\ \A k \in 1..Len(raw) :
                      /\ g[k] = Resolution(raw[k])
                      /\ service.search[raw[k]] # "hit" => g[k] = Sentinel

\* C14 witness: a batch is resolved that holds an empty treatment list and a
\* list of two labels, one with a term and one whose search failed.
C14_Witness ==
    /\ pc = "resolved"
    /\ \E m \in 1..Len(grounded_data) :
          Get(grounded_data[m], "treatment").val = <<>>
    /\ \E m \in 1..Len(grounded_data) :
          LET raw == Get(sample_data[m], "treatment").val
              g == Get(grounded_data[m], "treatment").val
          IN  /\ Len(g) = 2
              /\ \E k \in 1..2 : service.search[raw[k]] = "error" /\ g[k] = Sentinel
              /\ \E k \in 1..2 : g[k].uniq_id # None

\* C15 as stated: whatever the lookups for a label meet, for the tissue and
\* for a treatment alike, ground_labels_with_api_call does not raise.
C15_LookupFailureNeverAborts == pc # "raised"

\* The raw labels of the batch that map_bad holds, and the positions of the
\* groundings at which a raw label occurs in a field (k is 0 for the tissue).
BatchLabels == UNION {RawLabels(sample_data[m]) : m \in 1..Len(sample_data)}
BadLabels(bad_map) == BatchLabels \cap DOMAIN bad_map
TissueOccurrences(X) ==
    {<<m, "tissue", 0>> : m \in {n \in 1..Len(sample_data) :
        "tissue" \in Keys(sample_data[n]) /\ Get(sample_data[n], "tissue").val = X}}
TreatmentOccurrences(X) ==
    UNION {{<<m, "treatment", k>> : k \in {n \in 1..Len(treatments(sample_data[m])) :
                treatments(sample_data[m])[n] = X}} : m \in 1..Len(sample_data)}
OccurrencesIn(field, X) ==
    IF field = "tissue" THEN TissueOccurrences(X) ELSE TreatmentOccurrences(X)
LabelAt(data, p) ==
    LET e == Get(data[p[1]], p[2])
        v == IF e.list THEN e.val[p[3]] ELSE e.val
    IN  IF "label" \in DOMAIN v THEN v.label ELSE "no label"
PromptsFor(X) == {n \in 1..Len(session.prompts) : session.prompts[n].key = X}

\* C16 as stated: at the end of manual_correction every raw label of the
\* batch that is a key of map_bad has been asked for once, whatever the
\* fields it occurs in, and after a non-empty answer every occurrence of it
\* in the corrected groundings carries the corrected label.
C16_OnePromptPerBadLabel ==
    pc = "mc_done" =>
        \A X \in BadLabels(seen_maps.map_bad) :
            /\ Cardinality(PromptsFor(X)) = 1
            /\ \A n \in PromptsFor(X) :
                  strip(session.prompts[n].answer) # "" =>
                      \A p \in TissueOccurrences(X) \cup TreatmentOccurrences(X) :
                          LabelAt(session.corrected_data, p)
                              = strip(session.prompts[n].answer)

\* C17 as stated: when no raw label of the batch is a key of map_bad,
\* manual_correction ends with no prompt issued, a correction set without
\* entries written and returned, and corrected groundings equal to the input
\* written and returned.
C17_NothingBadNothingAsked ==
    (pc = "mc_done" /\ BadLabels(seen_maps.map_bad) = {}) =>
        /\ session.prompts = <<>>
        /\ session.manual_corrections = [tissue |-> EmptyMap, treatment |-> EmptyMap]
        /\ session.corrected_data = grounded_data
        /\ emitted = documents(session.manual_corrections, grounded_data)

\* C18: no step of manual_correction changes the groundings it was given.
C18_InputNeverMutated == [][grounded_data' = grounded_data]_vars

\* C18 witness: a session has ended in which a correction was applied to the
\* working copy.
C18_Witness ==
    /\ pc = "mc_done"
    /\ session.corrected_data # grounded_data
    /\ session.manual_corrections.treatment # EmptyMap

\* C19 as stated: at the end of manual_correction, for every pooled key
\* answered with empty input no occurrence of the key in the corrected
\* groundings differs from the input and the key is not in the correction
\* set; the correction set holds exactly the pooled keys answered with
\* non-empty input, each with the text entered (surrounding blanks aside).
C19_SkipLeavesUntouched ==
    pc = "mc_done" =>
        /\ \A n \in 1..Len(session.prompts) :
              LET pr == session.prompts[n] IN
              pr.answer = "" =>
                  /\ \A p \in OccurrencesIn(pr.field, pr.key) :
                        LabelAt(session.corrected_data, p) = LabelAt(grounded_data, p)
                  /\ pr.key \notin DOMAIN session.manual_corrections[pr.field]
        /\ \A field \in {"tissue", "treatment"} :
              LET answered == {n \in 1..Len(session.prompts) :
                                  /\ session.prompts[n].field = field
                                  /\ session.prompts[n].answer # ""}
              IN  /\ DOMAIN session.manual_corrections[field]
                        = {session.prompts[n].key : n \in answered}
                  /\ \A n \in answered :
                        session.manual_corrections[field][session.prompts[n].key]
                            = strip(session.prompts[n].answer)

\* The keys of a pool.
PoolKeys(pool) == {pool[n].key : n \in 1..Len(pool)}

\* C20: manual_correction leaves the three map documents as it found them
\* and the maps it loaded as it loaded them, whatever the operator enters;
\* so in every session, later ones included, every raw label of the batch
\* that is a key of map_bad is pooled.
C20_CacheNeverChanged ==
    /\ \A f \in Files : disk[f] = started_with[f]
    /\ session.active =>
          /\ seen_maps = LabelMap(started_with)
          /\ BadLabels(LabelMap(started_with).map_bad)
                = (PoolKeys(session.tissue_pool) \cap BatchLabels)
                     \cup PoolKeys(session.treatment_pool)

\* C20 witness: a second session is at its prompts and has pooled again a
\* label the first session wrote a correction for.
C20_Witness ==
    /\ prev_done
    /\ session.active
    /\ pc = "mc_treatment"
    /\ emitted.manual_corrections.kind = "object"
    /\ \E X \in DOMAIN emitted.manual_corrections.value.treatment :
          X \in PoolKeys(session.treatment_pool)

\* The first ontology, in probing order, that answers with a term.
FirstMatch(ols_code) ==
    {n \in 1..Len(Ontology) :
        /\ service.describe[ols_code][n] = "ok"
        /\ \A k \in 1..(n - 1) : service.describe[ols_code][k] = "404"}

\* C21 as stated: the record get_ols_information returns for a term is that
\* of the first ontology, in probing order, that answers successfully, 404s
\* before it being passed over and matches after it changing nothing.
C21_FirstMatchWins ==
    \A m \in 1..Len(grounded_data) :
        has_treatment(sample_data[m]) =>
            LET raw == Get(sample_data[m], "treatment").val
                g == Get(grounded_data[m], "treatment").val
            IN  \A k \in 1..Len(g) :
                   service.search[raw[k]] = "hit" =>
                       \A n \in FirstMatch(Candidate[raw[k]]) :
                           g[k] = [uniq_id |-> Candidate[raw[k]],
                                   label |-> OlsLabel(Ontology[n], Candidate[raw[k]])]

\* The raw labels of a sample in field order, list elements in list order,
\* the identifier left out; those of the batch in sample order.
LabelsInOrder(sample, n) ==
    IF sample[n].list THEN sample[n].val
    ELSE IF sample[n].key = "id" THEN <<>> ELSE <<sample[n].val>>
RECURSIVE SampleLabelsFrom(_, _)
SampleLabelsFrom(sample, n) ==
    IF n > Len(sample) THEN <<>>
    ELSE LabelsInOrder(sample, n) \o SampleLabelsFrom(sample, n + 1)
RECURSIVE BatchLabelsFrom(_)
BatchLabelsFrom(m) ==
    IF m > Len(sample_data) THEN <<>>
    ELSE SampleLabelsFrom(sample_data[m], 1) \o BatchLabelsFrom(m + 1)

\* The keys of bad_map among a sequence of labels, each at its first
\* occurrence only.
RECURSIVE FirstBad(_, _, _, _)
FirstBad(bad_map, labels, n, acc) ==
    IF n > Len(labels) THEN acc
    ELSE FirstBad(bad_map, labels, n + 1,
            IF labels[n] \in DOMAIN bad_map
                  /\ \A k \in 1..Len(acc) : acc[k] # labels[n]
            THEN Append(acc, labels[n]) ELSE acc)

\* C22 as stated: the prompts of a session are, one per distinct pooled raw
\* label, in the order in which the labels first occur as bad in the batch:
\* sample by sample and, within a sample, field by field.
C22_PromptsInFirstOccurrenceOrder ==
    pc = "mc_done" =>
        [n \in 1..Len(session.prompts) |-> session.prompts[n].key]
            = FirstBad(seen_maps.map_bad, BatchLabelsFrom(1), 1, <<>>)

\* C23 as stated: when a prompt is answered with a non-empty text, every
\* pooled occurrence of its key in its field holds the corrected text as its
\* label right after, whether the grounding there was a term record or not,
\* for the tissue and for treatment elements alike.
C23_DefensiveWrite ==
    [][(pc \in {"mc_tissue", "mc_treatment"}
           /\ Len(session'.prompts) = Len(session.prompts) + 1) =>
          LET pr == session'.prompts[Len(session'.prompts)] IN
          strip(pr.answer) # "" =>
              \A p \in OccurrencesIn(pr.field, pr.key) :
                  LabelAt(session'.corrected_data, p) = strip(pr.answer)]_vars

\* C24 as stated: in a run that constructed its LabelMap from an empty or
\* absent store, whatever add_mapping calls have been made, map_good and
\* map_bad have no key in common.
C24_GoodAndBadDisjoint ==
    LabelMap(started_with) = EmptyLabelMap =>
        (DOMAIN seen_maps.map_good) \cap (DOMAIN seen_maps.map_bad) = {}

\* C25 as stated: an add_mapping call that raises leaves map_good, map_bad
\* and the legacy map as they were before the call.
C25_FailedRecordLeavesNoTrace ==
    (call.op = "add_mapping" /\ ~call.ok) => seen_maps = call.before

====
